---- MODULE Spec2Model ----
(***************************************************************************)
(* Process-mining engine of yawl-processmining-service (src/pm.rs) and the *)
(* token-replay handler (src/handlers.rs).                                 *)
(*                                                                         *)
(* Strings are TLA+ strings.  A HashMap is a function whose DOMAIN is the  *)
(* key set.  A Vec is a sequence.  Option<T> is a sequence of length 0 or  *)
(* 1.  f64 values are exact rationals <<numerator, denominator>> with a    *)
(* positive denominator; rounding of f64 is not modelled.                  *)
(***************************************************************************)
EXTENDS Integers, Sequences, FiniteSets, TLC

VARIABLES
    net,               \* the PetriNet handed to token_based_replay
    log,               \* the EventLog handed to the engine
    pc,                \* position of the running operation
    ti,                \* index of the trace the loop of token_based_replay is at
    ei,                \* index of the event the loop of replay_trace is at
    marking,           \* replay_trace: working marking
    produced,          \* replay_trace: per-trace counters
    consumed,
    missing,
    remaining,
    total_produced,    \* token_based_replay: totals
    total_consumed,
    total_missing,
    total_remaining,
    deviating_traces,  \* token_based_replay: case ids pushed so far
    trace_counts,      \* history: the tuple replay_trace returned for each trace so far
    result,            \* Option<ReplayResult>
    req,               \* handlers::token_replay: the ReplayRequest (xes and pnml texts)
    resp,              \* handlers::token_replay: Option of the response sent
    dfg,               \* Option<DfgResult> of discover_dfg
    dfg2,              \* Option<DfgResult> of a second call of discover_dfg on the same log
    dnet,              \* Option<PetriNet> of discover_alpha_ppp
    dnet2,             \* Option<PetriNet> of a second call of discover_alpha_ppp
    pnml_text,         \* the text export_pnml wrote for dnet
    reparsed,          \* Option of the Result parse_pnml gave for pnml_text
    ocel,              \* Option of the document convert_to_ocel returned
    stats              \* Option<PerformanceStats> of compute_performance_stats

replayVars == <<ti, ei, marking, produced, consumed, missing, remaining,
                total_produced, total_consumed, total_missing, total_remaining,
                deviating_traces, trace_counts, result>>
httpVars == <<req, resp>>
discVars == <<dfg, dfg2, dnet, dnet2, pnml_text, reparsed, ocel, stats>>

vars == <<net, log, pc, replayVars, httpVars, discVars>>

-----------------------------------------------------------------------------
(* Bounds of the explored inputs *)

MaxTraces == 2
MaxEvents == 2
MaxArcs == 2
MaxN == 2

-----------------------------------------------------------------------------
(* Generic helpers *)

SeqsUpTo(S, n) == UNION {[1..k -> S] : k \in 0..n}

RECURSIVE SumSeq(_)
SumSeq(s) == IF s = <<>> THEN 0 ELSE Head(s) + SumSeq(Tail(s))

\* HashMap::get(k).copied().unwrap_or(0)
GetOr0(m, k) == IF k \in DOMAIN m THEN m[k] ELSE 0

\* *HashMap::entry(k).or_insert(0) = v
Put(m, k, v) == [x \in (DOMAIN m) \cup {k} |-> IF x = k THEN v ELSE m[x]]

EmptyMap == [x \in {} |-> 0]

RECURSIVE SumMap(_)
SumMap(m) ==
    IF DOMAIN m = {} THEN 0
    ELSE LET k == CHOOSE x \in DOMAIN m : TRUE
         IN  m[k] + SumMap([x \in (DOMAIN m) \ {k} |-> m[x]])

\* exact rationals standing for f64
RatAdd(a, b) == <<a[1] * b[2] + b[1] * a[2], a[2] * b[2]>>
RatHalf(a) == <<a[1], 2 * a[2]>>
RatLeq(a, b) == a[1] * b[2] <= b[1] * a[2]
RatEq(a, b) == a[1] * b[2] = b[1] * a[2]
RatMax(a, b) == IF RatLeq(a, b) THEN b ELSE a
RatMin(a, b) == IF RatLeq(a, b) THEN a ELSE b

-----------------------------------------------------------------------------
(* Data model *)

Event(a) == [activity |-> a, timestamp |-> <<>>]
Trace(c, es) == [case_id |-> c, events |-> es]
Place(i, l) == [id |-> i, label |-> l]
Arc(s, t, m) == [source |-> s, target |-> t, multiplicity |-> m]

\* parse_pnml: is_invisible: label.is_empty() || label == "tau"
IsInvisibleLabel(l) == l = "" \/ l = "tau"

\* Transition { id, label, is_invisible } as a caller of the library builds it
Transition(i, l, inv) == [id |-> i, label |-> l, is_invisible |-> inv]

ParsedTransition(i, l) == [id |-> i, label |-> l, is_invisible |-> IsInvisibleLabel(l)]

-----------------------------------------------------------------------------
(* Token-based replay *)

\* mutant: the filter looks at the label only
MatchingTrans_IgnoresFlag(n, activity) ==
    SelectSeq(n.transitions, LAMBDA t : t.label = activity)

\* mutant: the matching transitions are collected last declared first
MatchingTrans_LastFirst(n, activity) ==
    LET m == SelectSeq(n.transitions, LAMBDA t : t.label = activity /\ ~t.is_invisible)
    IN  [i \in DOMAIN m |-> m[Len(m) + 1 - i]]

\* mutant: the label comparison is dropped from the filter
MatchingTrans_AnyVisible(n, activity) ==
    SelectSeq(n.transitions, LAMBDA t : ~t.is_invisible)

\* replay_trace: net.transitions.iter().filter(label == activity && !is_invisible)
MatchingTrans(n, activity) ==
    SelectSeq(n.transitions, LAMBDA t : t.label = activity /\ ~t.is_invisible)

\* mutant: on a shortfall the arc is counted as consumed as well
ConsumeArc_ConsumedOnShortfall(arc, trans_id, st) ==
    IF arc.target = trans_id
    THEN LET available == GetOr0(st.marking, arc.source)
         IN  IF available >= arc.multiplicity
             THEN [st EXCEPT !.consumed = @ + arc.multiplicity,
                             !.marking = Put(st.marking, arc.source,
                                             available - arc.multiplicity)]
             ELSE [st EXCEPT !.consumed = @ + arc.multiplicity,
                             !.remaining = @ + (arc.multiplicity - available)]
    ELSE st

\* mutant: the tokens are removed without looking at what is available
ConsumeArc_Unguarded(arc, trans_id, st) ==
    IF arc.target = trans_id
    THEN [st EXCEPT !.consumed = @ + arc.multiplicity,
                    !.marking = Put(st.marking, arc.source,
                                    GetOr0(st.marking, arc.source) - arc.multiplicity)]
    ELSE st

\* mutant: on a shortfall the tokens that are there are taken
ConsumeArc_TakesWhatIsThere(arc, trans_id, st) ==
    IF arc.target = trans_id
    THEN LET available == GetOr0(st.marking, arc.source)
         IN  IF available >= arc.multiplicity
             THEN [st EXCEPT !.consumed = @ + arc.multiplicity,
                             !.marking = Put(st.marking, arc.source,
                                             available - arc.multiplicity)]
             ELSE [st EXCEPT !.remaining = @ + (arc.multiplicity - available),
                             !.marking = Put(st.marking, arc.source, 0)]
    ELSE st

\* replay_trace, body of the consume loop for one arc; st = [marking, consumed, remaining]
ConsumeArc(arc, trans_id, st) ==
    IF arc.target = trans_id
    THEN LET available == GetOr0(st.marking, arc.source)
         IN  IF available >= arc.multiplicity
             THEN [st EXCEPT !.consumed = @ + arc.multiplicity,
                             !.marking = Put(st.marking, arc.source,
                                             available - arc.multiplicity)]
             ELSE [st EXCEPT !.remaining = @ + (arc.multiplicity - available)]
    ELSE st

RECURSIVE ConsumeArcs(_, _, _)
ConsumeArcs(arcs, trans_id, st) ==
    IF arcs = <<>> THEN st
    ELSE ConsumeArcs(Tail(arcs), trans_id, ConsumeArc(Head(arcs), trans_id, st))

\* mutant: an arc to an id without an entry in the marking is skipped
ProduceArc_SkipsUnknownPlace(arc, trans_id, st) ==
    IF arc.source = trans_id /\ arc.target \in DOMAIN st.marking
    THEN [st EXCEPT !.produced = @ + arc.multiplicity,
                    !.marking = Put(st.marking, arc.target,
                                    GetOr0(st.marking, arc.target) + arc.multiplicity)]
    ELSE st

\* mutant: the produced tokens are counted but never put on the target place
ProduceArc_NoMarking(arc, trans_id, st) ==
    IF arc.source = trans_id
    THEN [st EXCEPT !.produced = @ + arc.multiplicity]
    ELSE st

\* replay_trace, body of the produce loop for one arc; st = [marking, produced]
ProduceArc(arc, trans_id, st) ==
    IF arc.source = trans_id
    THEN [st EXCEPT !.produced = @ + arc.multiplicity,
                    !.marking = Put(st.marking, arc.target,
                                    GetOr0(st.marking, arc.target) + arc.multiplicity)]
    ELSE st

RECURSIVE ProduceArcs(_, _, _)
ProduceArcs(arcs, trans_id, st) ==
    IF arcs = <<>> THEN st
    ELSE ProduceArcs(Tail(arcs), trans_id, ProduceArc(Head(arcs), trans_id, st))

\* mutant: the guard on total_produced + total_consumed is left out
Fitness_Unguarded(P, C, M, R) ==
    LET produced_fitness == IF P > 0 THEN <<P - M, P>> ELSE <<1, 1>>
        consumed_fitness == IF C > 0 THEN <<C - R, C>> ELSE <<1, 1>>
    IN  RatHalf(RatAdd(produced_fitness, consumed_fitness))

\* token_based_replay: the 4-counter fitness before clamping
Fitness(P, C, M, R) ==
    IF P + C > 0
    THEN LET produced_fitness == IF P > 0 THEN <<P - M, P>> ELSE <<1, 1>>
             consumed_fitness == IF C > 0 THEN <<C - R, C>> ELSE <<1, 1>>
         IN  RatHalf(RatAdd(produced_fitness, consumed_fitness))
    ELSE <<0, 1>>

\* mutant: the lower clamp is left out
Clamp_NoLowerBound(q) == RatMin(q, <<1, 1>>)

\* fitness.max(0.0).min(1.0)
Clamp(q) == RatMin(RatMax(q, <<0, 1>>), <<1, 1>>)

CurTrace == log.traces[ti]
CurEvent == CurTrace.events[ei]

\* token_based_replay: the for loop calls replay_trace, which clones the initial marking
StartTrace ==
    /\ pc = "loop"
    /\ ti <= Len(log.traces)
    /\ marking' = net.initial_marking
    /\ produced' = 0
    /\ consumed' = 0
    /\ missing' = 0
    /\ remaining' = 0
    /\ ei' = 1
    /\ pc' = "events"
    /\ UNCHANGED <<httpVars, discVars>>
    /\ UNCHANGED <<net, log, ti, total_produced, total_consumed, total_missing,
                   total_remaining, deviating_traces, trace_counts, result>>

\* replay_trace: an event with no matching visible transition
ReplayMissing ==
    /\ pc = "events"
    /\ ei <= Len(CurTrace.events)
    /\ MatchingTrans(net, CurEvent.activity) = <<>>
    /\ missing' = missing + 1
    /\ ei' = ei + 1
    /\ UNCHANGED <<httpVars, discVars>>
    /\ UNCHANGED <<net, log, pc, ti, marking, produced, consumed, remaining,
                   total_produced, total_consumed, total_missing, total_remaining,
                   deviating_traces, trace_counts, result>>

\* mutant: a transition fires only when every input arc finds its tokens
ReplayFire_NeedsTokens ==
    /\ pc = "events"
    /\ ei <= Len(CurTrace.events)
    /\ MatchingTrans(net, CurEvent.activity) # <<>>
    /\ LET trans == MatchingTrans(net, CurEvent.activity)[1]
           c == ConsumeArcs(net.arcs, trans.id,
                            [marking |-> marking, consumed |-> consumed,
                             remaining |-> remaining])
           p == ProduceArcs(net.arcs, trans.id,
                            [marking |-> c.marking, produced |-> produced])
       IN  /\ c.remaining = remaining
           /\ marking' = p.marking
           /\ consumed' = c.consumed
           /\ remaining' = c.remaining
           /\ produced' = p.produced
    /\ ei' = ei + 1
    /\ UNCHANGED <<httpVars, discVars>>
    /\ UNCHANGED <<net, log, pc, ti, missing, total_produced, total_consumed,
                   total_missing, total_remaining, deviating_traces, trace_counts, result>>

\* mutant: after a shortfall on an input arc the transition puts no token out
ReplayFire_NoOutputOnShortfall ==
    /\ pc = "events"
    /\ ei <= Len(CurTrace.events)
    /\ MatchingTrans(net, CurEvent.activity) # <<>>
    /\ LET trans == MatchingTrans(net, CurEvent.activity)[1]
           c == ConsumeArcs(net.arcs, trans.id,
                            [marking |-> marking, consumed |-> consumed,
                             remaining |-> remaining])
           p == IF c.remaining > remaining
                THEN [marking |-> c.marking, produced |-> produced]
                ELSE ProduceArcs(net.arcs, trans.id,
                                 [marking |-> c.marking, produced |-> produced])
       IN  /\ marking' = p.marking
           /\ consumed' = c.consumed
           /\ remaining' = c.remaining
           /\ produced' = p.produced
    /\ ei' = ei + 1
    /\ UNCHANGED <<httpVars, discVars>>
    /\ UNCHANGED <<net, log, pc, ti, missing, total_produced, total_consumed,
                   total_missing, total_remaining, deviating_traces, trace_counts, result>>

\* replay_trace: an event with a matching visible transition fires matching_trans[0]
ReplayFire ==
    /\ pc = "events"
    /\ ei <= Len(CurTrace.events)
    /\ MatchingTrans(net, CurEvent.activity) # <<>>
    /\ LET trans == MatchingTrans(net, CurEvent.activity)[1]
           c == ConsumeArcs(net.arcs, trans.id,
                            [marking |-> marking, consumed |-> consumed,
                             remaining |-> remaining])
           p == ProduceArcs(net.arcs, trans.id,
                            [marking |-> c.marking, produced |-> produced])
       IN  /\ marking' = p.marking
           /\ consumed' = c.consumed
           /\ remaining' = c.remaining
           /\ produced' = p.produced
    /\ ei' = ei + 1
    /\ UNCHANGED <<httpVars, discVars>>
    /\ UNCHANGED <<net, log, pc, ti, missing, total_produced, total_consumed,
                   total_missing, total_remaining, deviating_traces, trace_counts, result>>

\* mutant: the trace is flagged by the running totals, not by its own counters
EndTrace_TotalsFlag ==
    /\ pc = "events"
    /\ ei > Len(CurTrace.events)
    /\ total_produced' = total_produced + produced
    /\ total_consumed' = total_consumed + consumed
    /\ total_missing' = total_missing + missing
    /\ total_remaining' = total_remaining + remaining
    /\ deviating_traces' = IF total_missing' > 0 \/ total_remaining' > 0
                           THEN Append(deviating_traces, CurTrace.case_id)
                           ELSE deviating_traces
    /\ trace_counts' = Append(trace_counts,
                               [produced |-> produced, consumed |-> consumed,
                                missing |-> missing, remaining |-> remaining])
    /\ ti' = ti + 1
    /\ pc' = "loop"
    /\ UNCHANGED <<httpVars, discVars>>
    /\ UNCHANGED <<net, log, ei, marking, produced, consumed, missing, remaining,
                   result>>

\* token_based_replay: replay_trace returned; add to the totals, flag the trace
EndTrace ==
    /\ pc = "events"
    /\ ei > Len(CurTrace.events)
    /\ total_produced' = total_produced + produced
    /\ total_consumed' = total_consumed + consumed
    /\ total_missing' = total_missing + missing
    /\ total_remaining' = total_remaining + remaining
    /\ deviating_traces' = IF missing > 0 \/ remaining > 0
                           THEN Append(deviating_traces, CurTrace.case_id)
                           ELSE deviating_traces
    /\ trace_counts' = Append(trace_counts,
                               [produced |-> produced, consumed |-> consumed,
                                missing |-> missing, remaining |-> remaining])
    /\ ti' = ti + 1
    /\ pc' = "loop"
    /\ UNCHANGED <<httpVars, discVars>>
    /\ UNCHANGED <<net, log, ei, marking, produced, consumed, missing, remaining,
                   result>>

\* token_based_replay: after the loop, compute the fitness and return
ReturnResult ==
    /\ pc = "loop"
    /\ ti > Len(log.traces)
    /\ result' = <<[fitness |-> Clamp(Fitness(total_produced, total_consumed,
                                              total_missing, total_remaining)),
                    produced |-> total_produced,
                    consumed |-> total_consumed,
                    missing |-> total_missing,
                    remaining |-> total_remaining,
                    deviating_traces |-> deviating_traces]>>
    /\ pc' = "done"
    /\ UNCHANGED <<httpVars, discVars>>
    /\ UNCHANGED <<net, log, ti, ei, marking, produced, consumed, missing, remaining,
                   total_produced, total_consumed, total_missing, total_remaining,
                   deviating_traces, trace_counts>>

-----------------------------------------------------------------------------
(* Inputs of the replay specification *)

Act == {"A", "B"}
ActName == <<"A", "B", "C", "D", "E">>

EventSeqs == {[i \in DOMAIN s |-> Event(s[i])] : s \in SeqsUpTo(Act, MaxEvents)}

\* case ids of a log of k traces: all the same, or pairwise distinct
CaseIdSeqs(k) == {[i \in 1..k |-> "case1"], [i \in 1..k |-> "case" \o ToString(i)]}

LogsOfLen(k) ==
    {[traces |-> [i \in 1..k |-> Trace(cs[i], es[i])]] :
        cs \in CaseIdSeqs(k), es \in [1..k -> EventSeqs]}

Logs == UNION {LogsOfLen(k) : k \in 1..MaxTraces}

GenPlaces == <<Place("p0", "p0"), Place("p1", "p1")>>

LabelPairs == {<<"A", "A">>, <<"A", "tau">>, <<"tau", "A">>, <<"A", "B">>}

ArcCand ==
    {Arc("p0", "t1", 1), Arc("p0", "t1", 2), Arc("t1", "p1", 1), Arc("p1", "t2", 1),
     Arc("t2", "p0", 1), Arc("px", "t1", 1), Arc("t1", "px", 1)}

GenNet(ls, arcs, k) ==
    [places |-> GenPlaces,
     transitions |-> <<ParsedTransition("t1", ls[1]), ParsedTransition("t2", ls[2])>>,
     arcs |-> arcs,
     initial_marking |-> [p \in {"p0", "p1"} |-> IF p = "p0" THEN k ELSE 0],
     final_markings |-> <<EmptyMap>>]

GenNets ==
    {GenNet(ls, arcs, k) : ls \in LabelPairs, arcs \in SeqsUpTo(ArcCand, MaxArcs),
                           k \in {0, 1}}

\* nets replayed against logs of several traces
AggNets ==
    {GenNet(<<"A", "tau">>, arcs, 1) :
        arcs \in {<<>>, <<Arc("p0", "t1", 1)>>, <<Arc("t1", "p1", 1)>>,
                  <<Arc("p0", "t1", 2), Arc("t1", "p1", 1)>>}}

\* the sequential net p0 -> t1 -> p1 -> ... -> tn -> pn with one token on p0
SeqNet(n) ==
    [places |-> [i \in 1..(n + 1) |-> Place("p" \o ToString(i - 1), "p" \o ToString(i - 1))],
     transitions |-> [i \in 1..n |-> ParsedTransition("t" \o ToString(i), ActName[i])],
     arcs |-> [j \in 1..(2 * n) |->
                 IF j % 2 = 1
                 THEN Arc("p" \o ToString((j - 1) \div 2), "t" \o ToString((j + 1) \div 2), 1)
                 ELSE Arc("t" \o ToString(j \div 2), "p" \o ToString(j \div 2), 1)],
     initial_marking |-> [p \in {"p" \o ToString(i) : i \in 0..n} |->
                             IF p = "p0" THEN 1 ELSE 0],
     final_markings |-> <<EmptyMap>>]

SeqLogs(n) ==
    {[traces |-> <<Trace("case1", [i \in DOMAIN s |-> Event(s[i])])>>] :
        s \in SeqsUpTo({ActName[i] : i \in 1..n}, n)}

\* the cycle p0 -> t1 -> p1 -> t2 -> p0 with one token on p0; the flags of the two
\* transitions are set by hand, with and against what their labels say
FlagNets ==
    {[places |-> GenPlaces,
      transitions |-> ts,
      arcs |-> <<Arc("p0", "t1", 1), Arc("t1", "p1", 1), Arc("p1", "t2", 1),
                 Arc("t2", "p0", 1)>>,
      initial_marking |-> [p \in {"p0", "p1"} |-> IF p = "p0" THEN 1 ELSE 0],
      final_markings |-> <<EmptyMap>>] :
        ts \in {<<Transition("t1", "tau", TRUE), Transition("t2", "A", FALSE)>>,
                <<Transition("t1", "A", TRUE), Transition("t2", "A", FALSE)>>,
                <<Transition("t1", "A", TRUE), Transition("t2", "B", FALSE)>>,
                <<Transition("t1", "tau", FALSE), Transition("t2", "A", FALSE)>>}}

\* logs of one trace whose events carry the activities A and tau
FlagLogs ==
    {[traces |-> <<Trace("case1", [i \in DOMAIN s |-> Event(s[i])])>>] :
        s \in SeqsUpTo({"A", "tau"}, MaxEvents)}

ReplayInputs ==
    \/ net \in GenNets /\ log \in LogsOfLen(1)
    \/ net \in AggNets /\ log \in Logs
    \/ \E n \in 1..MaxN : net = SeqNet(n) /\ log \in SeqLogs(n)
    \/ net \in FlagNets /\ log \in FlagLogs

\* token_based_replay: the locals at entry
ReplayEntry ==
    /\ ti = 1
    /\ ei = 1
    /\ marking = EmptyMap
    /\ produced = 0
    /\ consumed = 0
    /\ missing = 0
    /\ remaining = 0
    /\ total_produced = 0
    /\ total_consumed = 0
    /\ total_missing = 0
    /\ total_remaining = 0
    /\ deviating_traces = <<>>
    /\ trace_counts = <<>>
    /\ result = <<>>

\* no request is being handled
HttpIdle ==
    /\ req = [xes |-> <<>>, pnml |-> <<>>]
    /\ resp = <<>>

\* no discovery or export has run
DiscIdle ==
    /\ dfg = <<>>
    /\ dfg2 = <<>>
    /\ dnet = <<>>
    /\ dnet2 = <<>>
    /\ pnml_text = <<>>
    /\ reparsed = <<>>
    /\ ocel = <<>>
    /\ stats = <<>>

Init ==
    /\ ReplayInputs
    /\ pc = "loop"
    /\ ReplayEntry
    /\ HttpIdle
    /\ DiscIdle

Next ==
    \/ StartTrace
    \/ ReplayMissing
    \/ ReplayFire
    \/ EndTrace
    \/ ReturnResult

Spec == Init /\ [][Next]_vars

-----------------------------------------------------------------------------
(* Log codec: the XES text and parse_xes *)

\* The log text is the sequence of its <trace>...</trace> blocks.  The content of a
\* block is the sequence of its elements in document order: <string .../> and
\* <date .../> elements and <event>...</event> blocks, whose content is again a
\* sequence of <string .../> and <date .../> elements.
XString(k, v) == [kind |-> "string", key |-> k, value |-> v]
XDate(k, v) == [kind |-> "date", key |-> k, value |-> v]
XEvent(c) == [kind |-> "event", content |-> c]

\* the text of a date value: ms is the instant it denotes when it is well-formed RFC 3339
DateText(wellFormed, ms) == [rfc3339 |-> wellFormed, ms |-> ms]

\* DateTime::parse_from_rfc3339(value).ok()
ParseRfc3339(v) == IF v.rfc3339 THEN <<v.ms>> ELSE <<>>

\* what a regex without block structure finds in a piece of content: the elements of
\* that kind in document order, those nested inside event blocks included
RECURSIVE ElementsOfKind(_, _)
ElementsOfKind(content, kind) ==
    IF content = <<>> THEN <<>>
    ELSE LET h == Head(content)
             here == IF h.kind = "event" THEN ElementsOfKind(h.content, kind)
                     ELSE IF h.kind = kind THEN <<h>> ELSE <<>>
         IN  here \o ElementsOfKind(Tail(content), kind)

\* the value of the last element with that key, or the default
RECURSIVE LastValueOf(_, _, _)
LastValueOf(elems, key, default) ==
    IF elems = <<>> THEN default
    ELSE LastValueOf(Tail(elems), key,
                     IF Head(elems).key = key THEN Head(elems).value ELSE default)

\* parse_xes: the timestamp loop over the date elements of an event
RECURSIVE LastTimestampOf(_, _)
LastTimestampOf(elems, ts) ==
    IF elems = <<>> THEN ts
    ELSE LET h == Head(elems)
             parsed == IF h.key = "time:timestamp" THEN ParseRfc3339(h.value) ELSE <<>>
         IN  LastTimestampOf(Tail(elems), IF parsed # <<>> THEN parsed ELSE ts)

\* parse_xes: one event block
ParseXesEvent(ev) ==
    [activity |-> LastValueOf(ElementsOfKind(ev.content, "string"), "concept:name",
                              "unknown"),
     timestamp |-> LastTimestampOf(ElementsOfKind(ev.content, "date"), <<>>)]

\* parse_xes: one trace block; attr_pattern runs over the whole content of the block
ParseXesTrace(content) ==
    LET evs == SelectSeq(content, LAMBDA x : x.kind = "event")
    IN  [case_id |-> LastValueOf(ElementsOfKind(content, "string"), "concept:name",
                                 "case-unknown"),
         events |-> [i \in DOMAIN evs |-> ParseXesEvent(evs[i])]]

\* mutant: trace blocks without events are skipped
ParseXes_SkipsEventless(xes) ==
    LET traces == SelectSeq([i \in DOMAIN xes |-> ParseXesTrace(xes[i])],
                            LAMBDA t : t.events # <<>>)
    IN  IF traces = <<>>
        THEN [ok |-> FALSE, log |-> [traces |-> <<>>],
              err |-> "No traces found in XES log"]
        ELSE [ok |-> TRUE, log |-> [traces |-> traces], err |-> ""]

\* parse_xes: Result<EventLog, String>
ParseXes(xes) ==
    LET traces == [i \in DOMAIN xes |-> ParseXesTrace(xes[i])]
    IN  IF traces = <<>>
        THEN [ok |-> FALSE, log |-> [traces |-> <<>>],
              err |-> "No traces found in XES log"]
        ELSE [ok |-> TRUE, log |-> [traces |-> traces], err |-> ""]

-----------------------------------------------------------------------------
(* Process-model codec: the PNML text, parse_pnml and export_pnml *)

\* The model text is the sequence of its <place>, <transition> and <arc> elements in
\* document order.  A place carries the <initialMarking><text>..</text> elements
\* written inside it; such a text is the sequence of its comma-separated fields
\* (<<>> is the empty text).
PPlace(i, t, im) == [kind |-> "place", id |-> i, text |-> t, initialMarking |-> im]
PTransition(i, t) == [kind |-> "transition", id |-> i, text |-> t]
PArc(s, t, w) == [kind |-> "arc", source |-> s, target |-> t, inscription |-> w]

\* parse_pnml: the places loop, which also enters every place with 0 tokens
RECURSIVE ZeroMarking(_)
ZeroMarking(places) ==
    IF places = <<>> THEN EmptyMap
    ELSE Put(ZeroMarking(SubSeq(places, 1, Len(places) - 1)),
             places[Len(places)].id, 0)

\* one comma-separated field of a marking text: lead spaces, the text between them,
\* trail spaces
MarkingField(lead, text, trail) == [lead |-> lead, text |-> text, trail |-> trail]

\* place_id.trim()
Trim(field) == field.text

\* mutant: a listed place gets one token however often it is listed
RECURSIVE CountFields_OnePerPlace(_, _)
CountFields_OnePerPlace(fields, m) ==
    IF fields = <<>> THEN m
    ELSE CountFields_OnePerPlace(Tail(fields), Put(m, Trim(Head(fields)), 1))

\* parse_pnml: for place_id in marking_str.split(','): *entry(id).or_insert(0) += 1
RECURSIVE CountFields(_, _)
CountFields(fields, m) ==
    IF fields = <<>> THEN m
    ELSE CountFields(Tail(fields),
                     Put(m, Trim(Head(fields)), GetOr0(m, Trim(Head(fields))) + 1))

\* parse_pnml: the loop over the initial-marking texts of the document
RECURSIVE CountMarkingTexts(_, _)
CountMarkingTexts(texts, m) ==
    IF texts = <<>> THEN m
    ELSE CountMarkingTexts(Tail(texts), CountFields(Head(texts), m))

\* every <initialMarking><text> of the document, in document order
RECURSIVE MarkingTexts(_)
MarkingTexts(pnml) ==
    IF pnml = <<>> THEN <<>>
    ELSE (IF Head(pnml).kind = "place" THEN Head(pnml).initialMarking ELSE <<>>)
         \o MarkingTexts(Tail(pnml))

\* mutant: a model without places is rejected as well
ParsePnml_NeedsPlaces(pnml) ==
    LET ps == SelectSeq(pnml, LAMBDA x : x.kind = "place")
        ts == SelectSeq(pnml, LAMBDA x : x.kind = "transition")
        as == SelectSeq(pnml, LAMBDA x : x.kind = "arc")
        places == [i \in DOMAIN ps |-> Place(ps[i].id, ps[i].text)]
        transitions == [i \in DOMAIN ts |-> ParsedTransition(ts[i].id, ts[i].text)]
        arcs == [i \in DOMAIN as |-> Arc(as[i].source, as[i].target, 1)]
        initial_marking == CountMarkingTexts(MarkingTexts(pnml), ZeroMarking(places))
        parsed == [places |-> places, transitions |-> transitions, arcs |-> arcs,
                   initial_marking |-> initial_marking,
                   final_markings |-> <<EmptyMap>>]
    IN  IF transitions = <<>> \/ places = <<>>
        THEN [ok |-> FALSE, net |-> parsed, err |-> "No transitions found in PNML"]
        ELSE [ok |-> TRUE, net |-> parsed, err |-> ""]

\* parse_pnml: Result<PetriNet, String>
ParsePnml(pnml) ==
    LET ps == SelectSeq(pnml, LAMBDA x : x.kind = "place")
        ts == SelectSeq(pnml, LAMBDA x : x.kind = "transition")
        as == SelectSeq(pnml, LAMBDA x : x.kind = "arc")
        places == [i \in DOMAIN ps |-> Place(ps[i].id, ps[i].text)]
        transitions == [i \in DOMAIN ts |-> ParsedTransition(ts[i].id, ts[i].text)]
        arcs == [i \in DOMAIN as |-> Arc(as[i].source, as[i].target, 1)]
        initial_marking == CountMarkingTexts(MarkingTexts(pnml), ZeroMarking(places))
        parsed == [places |-> places, transitions |-> transitions, arcs |-> arcs,
                   initial_marking |-> initial_marking,
                   final_markings |-> <<EmptyMap>>]
    IN  IF transitions = <<>>
        THEN [ok |-> FALSE, net |-> parsed, err |-> "No transitions found in PNML"]
        ELSE [ok |-> TRUE, net |-> parsed, err |-> ""]

\* export_pnml: one <place> element; the marking text is the token count in decimal
ExportPlace(n, place) ==
    PPlace(place.id, place.label,
           IF place.id \in DOMAIN n.initial_marking /\ n.initial_marking[place.id] > 0
           THEN <<<<MarkingField(0, ToString(n.initial_marking[place.id]), 0)>>>>
           ELSE <<>>)

\* export_pnml: places, then transitions, then arcs
ExportPnml(n) ==
    [i \in DOMAIN n.places |-> ExportPlace(n, n.places[i])]
    \o [i \in DOMAIN n.transitions |->
           PTransition(n.transitions[i].id, n.transitions[i].label)]
    \o [i \in DOMAIN n.arcs |->
           PArc(n.arcs[i].source, n.arcs[i].target, ToString(n.arcs[i].multiplicity))]

-----------------------------------------------------------------------------
(* handlers::token_replay *)

NoLog == [traces |-> <<>>]
NoNet == [places |-> <<>>, transitions |-> <<>>, arcs |-> <<>>,
          initial_marking |-> EmptyMap, final_markings |-> <<EmptyMap>>]

ErrorResponse(status, error, details) ==
    [status |-> status, error |-> error, details |-> details]

\* pm::parse_xes(&req.xes), mapped to 400 "XES parse error" on failure
HandlerParseXes ==
    /\ pc = "parse_xes"
    /\ LET r == ParseXes(req.xes)
       IN  IF r.ok
           THEN /\ log' = r.log
                /\ pc' = "parse_pnml"
                /\ UNCHANGED resp
           ELSE /\ resp' = <<ErrorResponse(400, "XES parse error", r.err)>>
                /\ pc' = "responded"
                /\ UNCHANGED log
    /\ UNCHANGED <<net, req, replayVars, discVars>>

\* pm::parse_pnml(&req.pnml), mapped to 400 "PNML parse error" on failure
HandlerParsePnml ==
    /\ pc = "parse_pnml"
    /\ LET r == ParsePnml(req.pnml)
       IN  IF r.ok
           THEN /\ net' = r.net
                /\ pc' = "loop"
                /\ UNCHANGED resp
           ELSE /\ resp' = <<ErrorResponse(400, "PNML parse error", r.err)>>
                /\ pc' = "responded"
                /\ UNCHANGED net
    /\ UNCHANGED <<log, req, replayVars, discVars>>

\* Ok(Json(ReplayResponse {..})) built from the ReplayResult
HandlerRespond ==
    /\ pc = "done"
    /\ resp' = <<[status |-> 200,
                  fitness |-> result[1].fitness,
                  produced |-> result[1].produced,
                  consumed |-> result[1].consumed,
                  missing |-> result[1].missing,
                  remaining |-> result[1].remaining,
                  deviating_cases |-> result[1].deviating_traces]>>
    /\ pc' = "responded"
    /\ UNCHANGED <<net, log, req, replayVars, discVars>>

\* the request bodies explored
XesEvents ==
    {XEvent(<<>>)} \cup {XEvent(<<XString("concept:name", a)>>) : a \in Act}

XesEventSeqs(n) == SeqsUpTo(XesEvents, n)

\* a trace block: its own concept:name before its events, after them, or absent
XesBlocks(n) ==
    UNION {{<<XString("concept:name", "case1")>> \o es,
            es \o <<XString("concept:name", "case1")>>,
            es} : es \in XesEventSeqs(n)}

XesDocs ==
    {<<>>} \cup {<<b>> : b \in XesBlocks(MaxEvents)}
           \cup UNION {[1..k -> XesBlocks(1)] : k \in 2..MaxTraces}

PnmlPlaces ==
    {<<>>} \cup {<<PPlace("p0", "p0", im), PPlace("p1", "p1", <<>>)>> :
                    im \in {<<>>, <<<<MarkingField(0, "p0", 0)>>>>,
                            <<<<MarkingField(0, "p0", 0), MarkingField(1, "p0", 0)>>>>,
                            <<<<MarkingField(0, "p0", 0)>>, <<MarkingField(0, "p0", 0)>>>>}}
           \cup {<<PPlace("p0", "p0", <<<<MarkingField(0, "p0", 0)>>>>),
                   PPlace("p1", "p1", <<<<MarkingField(1, "p0", 1), MarkingField(0, "p1", 0),
                                         MarkingField(0, "px", 0)>>>>)>>}

PnmlTransitions ==
    {<<>>, <<PTransition("t_A", "A")>>,
     <<PTransition("t_A", "A"), PTransition("t_B", "B")>>,
     <<PTransition("t_A", "A"), PTransition("t_tau", "tau")>>}

PnmlArcs ==
    {<<>>, <<PArc("p0", "t_A", "1"), PArc("t_A", "p1", "1")>>,
     <<PArc("p0", "t_A", "1"), PArc("t_A", "p1", "1"), PArc("p1", "t_B", "1")>>}

PnmlDocs == {ps \o ts \o as : ps \in PnmlPlaces, ts \in PnmlTransitions, as \in PnmlArcs}

InitHttp ==
    /\ req \in [xes : XesDocs, pnml : PnmlDocs]
    /\ resp = <<>>
    /\ log = NoLog
    /\ net = NoNet
    /\ pc = "parse_xes"
    /\ ReplayEntry
    /\ DiscIdle

NextHttp ==
    \/ HandlerParseXes
    \/ HandlerParsePnml
    \/ StartTrace
    \/ ReplayMissing
    \/ ReplayFire
    \/ EndTrace
    \/ ReturnResult
    \/ HandlerRespond

SpecHttp == InitHttp /\ [][NextHttp]_vars

-----------------------------------------------------------------------------
(* Discovery: discover_dfg and discover_alpha_ppp *)

\* *map.entry(k).or_insert(0) += 1
Bump(m, k) == Put(m, k, GetOr0(m, k) + 1)

\* the orders in which a HashMap with key set S may be iterated
Orders(S) == {f \in [1..Cardinality(S) -> S] : \A x \in S : \E i \in DOMAIN f : f[i] = x}

\* discover_dfg: for event in &trace.events: activity_counts[activity] += 1
RECURSIVE CountActivities(_, _)
CountActivities(events, m) ==
    IF events = <<>> THEN m
    ELSE CountActivities(Tail(events), Bump(m, Head(events).activity))

\* mutant: the pair loop stops one pair early
RECURSIVE CountPairs_OneShort(_, _)
CountPairs_OneShort(events, m) ==
    IF Len(events) < 3 THEN m
    ELSE CountPairs_OneShort(Tail(events),
                             Bump(m, <<events[1].activity, events[2].activity>>))

\* discover_dfg: for i in 0..len - 1: df_relations[(events[i], events[i + 1])] += 1
RECURSIVE CountPairs(_, _)
CountPairs(events, m) ==
    IF Len(events) < 2 THEN m
    ELSE CountPairs(Tail(events), Bump(m, <<events[1].activity, events[2].activity>>))

\* discover_dfg: the body of the loop over the traces
DfgTrace(trace, acc) ==
    IF trace.events = <<>> THEN acc
    ELSE [start_activities |-> Bump(acc.start_activities, trace.events[1].activity),
          end_activities |->
              Bump(acc.end_activities, trace.events[Len(trace.events)].activity),
          activity_counts |-> CountActivities(trace.events, acc.activity_counts),
          df_relations |-> CountPairs(trace.events, acc.df_relations)]

RECURSIVE DfgMaps(_, _)
DfgMaps(traces, acc) ==
    IF traces = <<>> THEN acc
    ELSE DfgMaps(Tail(traces), DfgTrace(Head(traces), acc))

DfgMapsOf(l) ==
    DfgMaps(l.traces, [start_activities |-> EmptyMap, end_activities |-> EmptyMap,
                       activity_counts |-> EmptyMap, df_relations |-> EmptyMap])

\* discover_dfg: the DfgResult, with the two maps iterated in the given orders
DiscoverDfgIn(l, nodeOrder, edgeOrder) ==
    LET m == DfgMapsOf(l)
    IN  [nodes |-> [i \in DOMAIN nodeOrder |->
                       [id |-> nodeOrder[i], label |-> nodeOrder[i],
                        count |-> m.activity_counts[nodeOrder[i]]]],
         edges |-> [i \in DOMAIN edgeOrder |->
                       [source |-> edgeOrder[i][1], target |-> edgeOrder[i][2],
                        count |-> m.df_relations[edgeOrder[i]]]],
         start_activities |-> m.start_activities,
         end_activities |-> m.end_activities]

\* the results discover_dfg can return for a log
DfgResults(l) ==
    {DiscoverDfgIn(l, no, eo) : no \in Orders(DOMAIN DfgMapsOf(l).activity_counts),
                                eo \in Orders(DOMAIN DfgMapsOf(l).df_relations)}

\* mutant: the transition of a silent label is built invisible, as parse_pnml does
RECURSIVE AlphaTransitions_SilentByLabel(_, _)
AlphaTransitions_SilentByLabel(nodes, activity_set) ==
    IF nodes = <<>> THEN <<>>
    ELSE IF Head(nodes).id \in activity_set
         THEN AlphaTransitions_SilentByLabel(Tail(nodes), activity_set)
         ELSE <<[id |-> "t_" \o Head(nodes).id, label |-> Head(nodes).id,
                 is_invisible |-> IsInvisibleLabel(Head(nodes).id)]>>
              \o AlphaTransitions_SilentByLabel(Tail(nodes),
                                                activity_set \cup {Head(nodes).id})

\* discover_alpha_ppp: one transition per node not yet in activity_set
RECURSIVE AlphaTransitions(_, _)
AlphaTransitions(nodes, activity_set) ==
    IF nodes = <<>> THEN <<>>
    ELSE IF Head(nodes).id \in activity_set
         THEN AlphaTransitions(Tail(nodes), activity_set)
         ELSE <<[id |-> "t_" \o Head(nodes).id, label |-> Head(nodes).id,
                 is_invisible |-> FALSE]>>
              \o AlphaTransitions(Tail(nodes), activity_set \cup {Head(nodes).id})

\* mutant: every edge place gets the id of the first one
EdgePlaceId_Same(i) == "p_0"

\* discover_alpha_ppp: place p_<i> of the i-th edge, i counted from 0
EdgePlaceId(i) == "p_" \o ToString(i - 1)

\* mutant: only the arc into the place of each edge is built
RECURSIVE EdgeArcs_InOnly(_, _)
EdgeArcs_InOnly(edges, i) ==
    IF i > Len(edges) THEN <<>>
    ELSE <<Arc("t_" \o edges[i].source, EdgePlaceId(i), 1)>>
         \o EdgeArcs_InOnly(edges, i + 1)

\* discover_alpha_ppp: the two arcs through the place of each edge
RECURSIVE EdgeArcs(_, _)
EdgeArcs(edges, i) ==
    IF i > Len(edges) THEN <<>>
    ELSE <<Arc("t_" \o edges[i].source, EdgePlaceId(i), 1),
           Arc(EdgePlaceId(i), "t_" \o edges[i].target, 1)>>
         \o EdgeArcs(edges, i + 1)

\* discover_alpha_ppp on the DfgResult d, the start and end maps iterated as given
AlphaNet(d, startOrder, endOrder) ==
    [places |-> <<Place("p_source", "source"), Place("p_sink", "sink")>>
                \o [i \in DOMAIN d.edges |->
                       Place(EdgePlaceId(i), d.edges[i].source \o "->" \o d.edges[i].target)],
     transitions |-> AlphaTransitions(d.nodes, {}),
     arcs |-> [i \in DOMAIN startOrder |-> Arc("p_source", "t_" \o startOrder[i], 1)]
              \o [i \in DOMAIN endOrder |-> Arc("t_" \o endOrder[i], "p_sink", 1)]
              \o EdgeArcs(d.edges, 1),
     initial_marking |-> [p \in {"p_source"} |-> 1],
     final_markings |-> <<[p \in {"p_sink"} |-> 1]>>]

\* the nets discover_alpha_ppp can return for a log
AlphaNets(l) ==
    {AlphaNet(d, so, eo) : d \in DfgResults(l),
                           so \in Orders(DOMAIN DfgMapsOf(l).start_activities),
                           eo \in Orders(DOMAIN DfgMapsOf(l).end_activities)}

-----------------------------------------------------------------------------
(* Interchange exporter: convert_to_ocel *)

\* mutant: one object per distinct case id
RECURSIVE OcelObjects_Merged(_)
OcelObjects_Merged(traces) ==
    IF traces = <<>> THEN <<>>
    ELSE LET front == SubSeq(traces, 1, Len(traces) - 1)
             last == traces[Len(traces)]
         IN  IF \E i \in DOMAIN front : front[i].case_id = last.case_id
             THEN OcelObjects_Merged(front)
             ELSE Append(OcelObjects_Merged(front),
                         [oid |-> last.case_id, type |-> "case"])

\* convert_to_ocel: one case object per trace
OcelObjects(traces) ==
    [i \in DOMAIN traces |-> [oid |-> traces[i].case_id, type |-> "case"]]

\* event.timestamp.map(to_rfc3339).unwrap_or("1970-01-01T00:00:00Z")
OcelTimestamp(ts) == IF ts = <<>> THEN DateText(TRUE, 0) ELSE DateText(TRUE, ts[1])

\* convert_to_ocel: the inner loop; acc = [events, event_counter]
RECURSIVE OcelTraceEvents(_, _, _)
OcelTraceEvents(case_id, events, acc) ==
    IF events = <<>> THEN acc
    ELSE OcelTraceEvents(case_id, Tail(events),
             [events |-> Append(acc.events,
                                [eid |-> "event-" \o ToString(acc.event_counter),
                                 activity |-> Head(events).activity,
                                 timestamp |-> OcelTimestamp(Head(events).timestamp),
                                 omap |-> <<case_id>>]),
              event_counter |-> acc.event_counter + 1])

\* mutant: the event counter starts again at 0 in every trace
RECURSIVE OcelEvents_CounterPerTrace(_, _)
OcelEvents_CounterPerTrace(traces, acc) ==
    IF traces = <<>> THEN acc
    ELSE OcelEvents_CounterPerTrace(
             Tail(traces),
             OcelTraceEvents(Head(traces).case_id, Head(traces).events,
                             [events |-> acc.events, event_counter |-> 0]))

\* convert_to_ocel: the outer loop over the traces
RECURSIVE OcelEvents(_, _)
OcelEvents(traces, acc) ==
    IF traces = <<>> THEN acc
    ELSE OcelEvents(Tail(traces),
                    OcelTraceEvents(Head(traces).case_id, Head(traces).events, acc))

ConvertToOcelOf(l) ==
    [objects |-> OcelObjects(l.traces),
     events |-> OcelEvents(l.traces, [events |-> <<>>, event_counter |-> 0]).events]

-----------------------------------------------------------------------------
(* Performance analyzer: compute_performance_stats *)

\* an event with its Option<DateTime<Utc>>, the instant in ms
TimedEvent(a, ts) == [activity |-> a, timestamp |-> ts]

RECURSIVE MinSeq(_)
MinSeq(d) ==
    IF Len(d) = 1 THEN d[1]
    ELSE LET m == MinSeq(Tail(d)) IN IF d[1] <= m THEN d[1] ELSE m

RECURSIVE MaxSeq(_)
MaxSeq(d) ==
    IF Len(d) = 1 THEN d[1]
    ELSE LET m == MaxSeq(Tail(d)) IN IF d[1] >= m THEN d[1] ELSE m

RECURSIVE SumDurations(_)
SumDurations(d) == IF d = <<>> THEN 0 ELSE Head(d) + SumDurations(Tail(d))

\* mutant: a negative gap is kept as a sample of 0 ms
DurationSample_Clamped(curr, next) ==
    IF curr.timestamp # <<>> /\ next.timestamp # <<>>
    THEN LET dur_ms == next.timestamp[1] - curr.timestamp[1]
         IN  IF dur_ms >= 0 THEN <<dur_ms>> ELSE <<0>>
    ELSE <<>>

\* the sample the pair (events[i], events[i + 1]) pushes, if any
DurationSample(curr, next) ==
    IF curr.timestamp # <<>> /\ next.timestamp # <<>>
    THEN LET dur_ms == next.timestamp[1] - curr.timestamp[1]
         IN  IF dur_ms >= 0 THEN <<dur_ms>> ELSE <<>>
    ELSE <<>>

\* for i in 0..len.saturating_sub(1): activity_durations[curr.activity].push(dur_ms)
RECURSIVE TraceDurations(_, _)
TraceDurations(events, m) ==
    IF Len(events) < 2 THEN m
    ELSE LET sample == DurationSample(events[1], events[2])
             a == events[1].activity
             sofar == IF a \in DOMAIN m THEN m[a] ELSE <<>>
         IN  TraceDurations(Tail(events),
                            IF sample = <<>> THEN m ELSE Put(m, a, sofar \o sample))

\* mutant: a negative flow time is kept with its sign dropped
FlowSample_Absolute(events) ==
    LET first_time == events[1].timestamp
        last_time == events[Len(events)].timestamp
    IN  IF first_time # <<>> /\ last_time # <<>>
        THEN LET duration_ms == last_time[1] - first_time[1]
             IN  IF duration_ms >= 0 THEN <<duration_ms>> ELSE <<0 - duration_ms>>
        ELSE <<>>

\* the flow time a non-empty trace pushes to total_flow_times, if any
FlowSample(events) ==
    LET first_time == events[1].timestamp
        last_time == events[Len(events)].timestamp
    IN  IF first_time # <<>> /\ last_time # <<>>
        THEN LET duration_ms == last_time[1] - first_time[1]
             IN  IF duration_ms >= 0 THEN <<duration_ms>> ELSE <<>>
        ELSE <<>>

\* the body of the loop over the traces
PerfTrace(trace, acc) ==
    IF trace.events = <<>> THEN acc
    ELSE [activity_counts |-> CountActivities(trace.events, acc.activity_counts),
          activity_durations |-> TraceDurations(trace.events, acc.activity_durations),
          total_flow_times |-> acc.total_flow_times \o FlowSample(trace.events)]

RECURSIVE PerfMaps(_, _)
PerfMaps(traces, acc) ==
    IF traces = <<>> THEN acc
    ELSE PerfMaps(Tail(traces), PerfTrace(Head(traces), acc))

\* ActivityStats of one activity from its count and its Option of duration samples
ActivityStatsOf(count, durations) ==
    IF durations # <<>> /\ durations[1] # <<>>
    THEN LET d == durations[1]
         IN  [count |-> count,
              avg_duration_ms |-> <<SumDurations(d), Len(d)>>,
              min_duration_ms |-> <<MinSeq(d), 1>>,
              max_duration_ms |-> <<MaxSeq(d), 1>>]
    ELSE [count |-> count, avg_duration_ms |-> <<0, 1>>, min_duration_ms |-> <<0, 1>>,
          max_duration_ms |-> <<0, 1>>]

\* compute_performance_stats
ComputePerformanceStatsOf(l) ==
    LET m == PerfMaps(l.traces, [activity_counts |-> EmptyMap,
                                 activity_durations |-> EmptyMap,
                                 total_flow_times |-> <<>>])
        lens == [i \in DOMAIN l.traces |-> Len(l.traces[i].events)]
        trace_count == Len(l.traces)
        total_events == SumDurations(lens)
        avg_flow_time_ms ==
            IF m.total_flow_times # <<>>
            THEN <<SumDurations(m.total_flow_times), Len(m.total_flow_times)>>
            ELSE <<0, 1>>
    IN  [trace_count |-> trace_count,
         total_events |-> total_events,
         avg_trace_length |-> IF trace_count > 0 THEN <<total_events, trace_count>>
                              ELSE <<0, 1>>,
         min_trace_length |-> IF lens = <<>> THEN 0 ELSE MinSeq(lens),
         max_trace_length |-> IF lens = <<>> THEN 0 ELSE MaxSeq(lens),
         avg_flow_time_ms |-> avg_flow_time_ms,
         throughput_per_hour |->
             IF avg_flow_time_ms[1] > 0
             THEN <<3600000 * avg_flow_time_ms[2], avg_flow_time_ms[1]>>
             ELSE <<0, 1>>,
         activity_stats |->
             [a \in DOMAIN m.activity_counts |->
                 ActivityStatsOf(m.activity_counts[a],
                                 IF a \in DOMAIN m.activity_durations
                                 THEN <<m.activity_durations[a]>> ELSE <<>>)]]

ComputePerformanceStats ==
    /\ pc = "start"
    /\ stats' = <<ComputePerformanceStatsOf(log)>>
    /\ pc' = "perf"
    /\ UNCHANGED <<net, log, replayVars, httpVars, dfg, dfg2, dnet, dnet2, pnml_text,
                   reparsed, ocel>>

\* the instants events carry: none, or one of three
Instants == {<<>>, <<0>>, <<10>>, <<30>>}

TimedEventSeqs == SeqsUpTo({TimedEvent(a, ts) : a \in Act, ts \in Instants}, MaxEvents)

\* the traces that follow the first one: none with events, one in time order, one out of
\* time order, one without timestamps
LaterTraces ==
    {<<>>,
     <<TimedEvent("A", <<0>>), TimedEvent("B", <<10>>)>>,
     <<TimedEvent("A", <<30>>), TimedEvent("A", <<0>>), TimedEvent("B", <<10>>)>>,
     <<TimedEvent("A", <<>>), TimedEvent("B", <<>>)>>}

\* logs with timestamps: any first trace, the others from LaterTraces
TimedLogs ==
    UNION {{[traces |-> [i \in 1..k |->
                            Trace("case" \o ToString(i), IF i = 1 THEN es ELSE later[i])]] :
              es \in TimedEventSeqs, later \in [1..k -> LaterTraces]} :
           k \in 1..MaxTraces}

InitPerf ==
    /\ log \in TimedLogs
    /\ net = NoNet
    /\ pc = "start"
    /\ ReplayEntry
    /\ HttpIdle
    /\ DiscIdle

NextPerf == ComputePerformanceStats

SpecPerf == InitPerf /\ [][NextPerf]_vars

-----------------------------------------------------------------------------
(* The log operations, each run on a log *)

DiscoverDfg ==
    /\ pc = "start"
    /\ \E d \in DfgResults(log) : dfg' = <<d>>
    /\ pc' = "dfg"
    /\ UNCHANGED <<net, log, replayVars, httpVars, stats, dfg2, dnet, dnet2, pnml_text,
                   reparsed, ocel>>

\* a second call of discover_dfg on the same log
DiscoverDfgAgain ==
    /\ pc = "dfg"
    /\ \E d \in DfgResults(log) : dfg2' = <<d>>
    /\ pc' = "dfg2"
    /\ UNCHANGED <<net, log, replayVars, httpVars, stats, dfg, dnet, dnet2, pnml_text,
                   reparsed, ocel>>

DiscoverAlpha ==
    /\ pc = "start"
    /\ \E n \in AlphaNets(log) : dnet' = <<n>>
    /\ pc' = "alpha"
    /\ UNCHANGED <<net, log, replayVars, httpVars, stats, dfg, dfg2, dnet2, pnml_text,
                   reparsed, ocel>>

\* a second call of discover_alpha_ppp on the same log
DiscoverAlphaAgain ==
    /\ pc = "alpha"
    /\ \E n \in AlphaNets(log) : dnet2' = <<n>>
    /\ pc' = "alpha2"
    /\ UNCHANGED <<net, log, replayVars, httpVars, stats, dfg, dfg2, dnet, pnml_text,
                   reparsed, ocel>>

\* export_pnml of the discovered net
ExportDiscovered ==
    /\ pc = "alpha"
    /\ pnml_text' = ExportPnml(dnet[1])
    /\ pc' = "exported"
    /\ UNCHANGED <<net, log, replayVars, httpVars, stats, dfg, dfg2, dnet, dnet2, reparsed,
                   ocel>>

\* parse_pnml of the exported text
ReparseExported ==
    /\ pc = "exported"
    /\ reparsed' = <<ParsePnml(pnml_text)>>
    /\ pc' = "reparsed"
    /\ UNCHANGED <<net, log, replayVars, httpVars, stats, dfg, dfg2, dnet, dnet2, pnml_text,
                   ocel>>

ConvertToOcel ==
    /\ pc = "start"
    /\ ocel' = <<ConvertToOcelOf(log)>>
    /\ pc' = "ocel"
    /\ UNCHANGED <<net, log, replayVars, httpVars, stats, dfg, dfg2, dnet, dnet2, pnml_text,
                   reparsed>>

\* the logs the log operations are run on: at most 2 * MaxEvents events in all
DiscoveryLogs ==
    {l \in Logs : SumSeq([i \in DOMAIN l.traces |-> Len(l.traces[i].events)])
                     <= 2 * MaxEvents}

\* logs of one trace in which events carry the activity "tau" or the empty activity
SilentLogs ==
    {[traces |-> <<Trace("case1", [i \in DOMAIN s |-> Event(s[i])])>>] :
        s \in SeqsUpTo({"A", "tau", ""}, MaxEvents) \ {<<>>}}

InitLog ==
    /\ log \in DiscoveryLogs \cup SilentLogs
    /\ net = NoNet
    /\ pc = "start"
    /\ ReplayEntry
    /\ HttpIdle
    /\ DiscIdle

NextLog ==
    \/ DiscoverDfg
    \/ DiscoverAlpha
    \/ ExportDiscovered
    \/ ReparseExported
    \/ ConvertToOcel

SpecLog == InitLog /\ [][NextLog]_vars

NextTwice ==
    \/ DiscoverDfg
    \/ DiscoverDfgAgain
    \/ DiscoverAlpha
    \/ DiscoverAlphaAgain

SpecTwice == InitLog /\ [][NextTwice]_vars

-----------------------------------------------------------------------------
(* Discovery followed by replay: token_based_replay on the net of discover_alpha_ppp *)

\* the traces that follow the first one of a mined log
MinedLaterTraces == {<<>>, <<Event("tau"), Event("A")>>}

\* the logs discovery runs on: any first trace over A and tau, the others from
\* MinedLaterTraces
MinedLogs ==
    UNION {{[traces |-> [i \in 1..k |->
                            Trace("case" \o ToString(i),
                                  IF i = 1 THEN [j \in DOMAIN s |-> Event(s[j])]
                                  ELSE later[i])]] :
              s \in SeqsUpTo({"A", "tau"}, MaxEvents),
              later \in [1..k -> MinedLaterTraces]} :
           k \in 1..MaxTraces}

\* a log with an activity no mined log has
ForeignLogs == {[traces |-> <<Trace("case1", <<Event("A"), Event("C")>>)>>]}

\* token_based_replay(&net, &log) with the net discover_alpha_ppp(&log) returned
ReplayMined ==
    /\ pc = "alpha"
    /\ net' = dnet[1]
    /\ pc' = "loop"
    /\ UNCHANGED <<log, replayVars, httpVars, discVars>>

\* token_based_replay of another log on the net discover_alpha_ppp returned
ReplayForeign ==
    /\ pc = "alpha"
    /\ net' = dnet[1]
    /\ log' \in ForeignLogs
    /\ pc' = "loop"
    /\ UNCHANGED <<replayVars, httpVars, discVars>>

InitMined ==
    /\ log \in MinedLogs
    /\ net = NoNet
    /\ pc = "start"
    /\ ReplayEntry
    /\ HttpIdle
    /\ DiscIdle

NextMined ==
    \/ DiscoverAlpha
    \/ ReplayMined
    \/ ReplayForeign
    \/ StartTrace
    \/ ReplayMissing
    \/ ReplayFire
    \/ EndTrace
    \/ ReturnResult

SpecMined == InitMined /\ [][NextMined]_vars

-----------------------------------------------------------------------------
(* Properties of token-based replay *)

Zero == <<0, 1>>
One == <<1, 1>>
Returned == result # <<>>
Res == result[1]

\* C1: the fitness token_based_replay returns lies in [0.0, 1.0], for every net and log.
C1_FitnessBound ==
    Returned => RatLeq(Zero, Res.fitness) /\ RatLeq(Res.fitness, One)

\* a log with unmatched activities and a shortfall whose unclamped score is negative
C1_Witness ==
    /\ Returned
    /\ Res.missing > 0
    /\ Res.remaining > 0
    /\ ~RatLeq(Zero, Fitness(Res.produced, Res.consumed, Res.missing, Res.remaining))

\* the formula of the specification text: both quotients default to 1.0
StatedFitness(P, C, M, R) ==
    LET producedFitness == IF P = 0 THEN One ELSE <<P - M, P>>
        consumedFitness == IF C = 0 THEN One ELSE <<C - R, C>>
        mean == RatHalf(RatAdd(producedFitness, consumedFitness))
    IN  IF RatLeq(mean, Zero) THEN Zero ELSE IF RatLeq(One, mean) THEN One ELSE mean

\* C2 as stated: fitness = clamp((producedFitness + consumedFitness) / 2, 0, 1) for every
\* log and net, also when P = 0 and C = 0 (where the formula gives 1.0).
C2_StatedFormula ==
    Returned =>
        RatEq(Res.fitness, StatedFitness(Res.produced, Res.consumed, Res.missing,
                                         Res.remaining))

\* C2 amended: the stated formula gives the fitness whenever P + C > 0, and the fitness
\* is 0.0 when P = 0 and C = 0.
C2_FormulaWhenTokensMoved ==
    Returned =>
        IF Res.produced + Res.consumed > 0
        THEN RatEq(Res.fitness, StatedFitness(Res.produced, Res.consumed, Res.missing,
                                              Res.remaining))
        ELSE RatEq(Res.fitness, Zero)

\* no token moved although events were replayed: all of them unmatched
C2_Witness ==
    /\ Returned
    /\ Res.produced = 0
    /\ Res.consumed = 0
    /\ Res.missing > 0
    /\ RatEq(Res.fitness, Zero)

\* the single-trace log whose events are the labels of t1..tn in order
MatchingLog(n) ==
    [traces |-> <<Trace("case1", [i \in 1..n |-> Event(ActName[i])])>>]

\* C3: a sequential net of n transitions replayed against the trace t1..tn returns
\* produced = n, consumed = n, missing = 0, remaining = 0, fitness = 1.0, no deviating case.
C3_SequentialPerfectFit ==
    \A n \in 1..MaxN :
        (Returned /\ net = SeqNet(n) /\ log = MatchingLog(n)) =>
            /\ Res.produced = n
            /\ Res.consumed = n
            /\ Res.missing = 0
            /\ Res.remaining = 0
            /\ RatEq(Res.fitness, One)
            /\ Res.deviating_traces = <<>>

C3_Witness ==
    \E n \in 2..MaxN : Returned /\ net = SeqNet(n) /\ log = MatchingLog(n)

\* no visible transition of the net carries the activity of the event being replayed
NoVisibleLabel ==
    /\ pc = "events"
    /\ ei <= Len(CurTrace.events)
    /\ \A i \in DOMAIN net.transitions :
          net.transitions[i].is_invisible \/ net.transitions[i].label # CurEvent.activity

\* C5: processing an event whose activity is the label of no visible transition adds
\* exactly 1 to missing and changes no token count and no other counter.
C5_MissingFrame ==
    [][(NoVisibleLabel /\ ei' = ei + 1) =>
          /\ missing' = missing + 1
          /\ marking' = marking
          /\ produced' = produced
          /\ consumed' = consumed
          /\ remaining' = remaining]_vars

\* an unmatched event was counted while tokens are on the places and others were fired
C5_Witness ==
    /\ pc = "events"
    /\ missing > 0
    /\ produced > 0
    /\ \E p \in DOMAIN marking : marking[p] > 0

\* the case ids of the first k traces whose own missing or remaining count is positive
RECURSIVE DeviatingOf(_)
DeviatingOf(k) ==
    IF k = 0 THEN <<>>
    ELSE IF trace_counts[k].missing > 0 \/ trace_counts[k].remaining > 0
         THEN Append(DeviatingOf(k - 1), log.traces[k].case_id)
         ELSE DeviatingOf(k - 1)

\* C6: deviating_traces holds, in log order, one entry for each trace whose own missing
\* or remaining count is positive, and nothing else; equal case ids are not merged.
C6_DeviatingIffOwnCounts ==
    /\ deviating_traces = DeviatingOf(Len(trace_counts))
    /\ Returned =>
          /\ Len(trace_counts) = Len(log.traces)
          /\ Res.deviating_traces = DeviatingOf(Len(log.traces))

\* two traces with the same case id: the first fits, the second deviates
C6_Witness ==
    /\ Returned
    /\ Len(log.traces) = 2
    /\ log.traces[1].case_id = log.traces[2].case_id
    /\ trace_counts[1].missing = 0 /\ trace_counts[1].remaining = 0
    /\ trace_counts[1].produced > 0
    /\ trace_counts[2].missing > 0
    /\ Res.deviating_traces = <<"case1">>

-----------------------------------------------------------------------------
(* Properties of the conformance operation *)

\* the <string .../> elements a trace block carries itself, outside its event blocks
OwnStrings(content) == SelectSeq(content, LAMBDA x : x.kind = "string")
EventBlocks(content) == SelectSeq(content, LAMBDA x : x.kind = "event")

\* one trace whose own concept:name is case1 and whose events are A then B
IsCase1AB(xes) ==
    /\ Len(xes) = 1
    /\ OwnStrings(xes[1]) = <<XString("concept:name", "case1")>>
    /\ EventBlocks(xes[1]) = <<XEvent(<<XString("concept:name", "A")>>),
                               XEvent(<<XString("concept:name", "B")>>)>>

OnlyTransitionIsA(pnml) ==
    SelectSeq(pnml, LAMBDA x : x.kind = "transition") = <<PTransition("t_A", "A")>>

\* C4: for a log text with one trace named case1 with events A, B and a model whose
\* only transition is t_A labelled A, the response has missing = 1 and
\* deviating_cases = ["case1"].
C4_DeviatingCaseIsTraceName ==
    (pc = "responded" /\ IsCase1AB(req.xes) /\ OnlyTransitionIsA(req.pnml)) =>
        /\ resp[1].status = 200
        /\ resp[1].missing = 1
        /\ resp[1].deviating_cases = <<"case1">>

-----------------------------------------------------------------------------
(* Properties of discovery and export *)

TraceLens == [i \in DOMAIN log.traces |-> Len(log.traces[i].events)]
TotalEvents == SumSeq(TraceLens)
NonEmptyTraces == Cardinality({i \in DOMAIN log.traces : log.traces[i].events # <<>>})

\* C7: the edge counts of discover_dfg sum to the number of events minus the number of
\* non-empty traces; the start counts and the end counts each sum to the number of
\* non-empty traces.
C7_DfgTotals ==
    dfg # <<>> =>
        /\ SumSeq([i \in DOMAIN dfg[1].edges |-> dfg[1].edges[i].count])
              = TotalEvents - NonEmptyTraces
        /\ SumMap(dfg[1].start_activities) = NonEmptyTraces
        /\ SumMap(dfg[1].end_activities) = NonEmptyTraces

\* a log with an empty trace and a trace of several events
C7_Witness ==
    /\ dfg # <<>>
    /\ NonEmptyTraces < Len(log.traces)
    /\ dfg[1].edges # <<>>

\* C8: for every accepted log, parse_pnml(export_pnml(discover_alpha_ppp(log))) succeeds
\* with the same numbers of places, transitions and arcs and the same total of
\* initial-marking tokens as the discovered net.
C8_DiscoveredNetRoundTrip ==
    pc = "reparsed" =>
        /\ reparsed[1].ok
        /\ Len(reparsed[1].net.places) = Len(dnet[1].places)
        /\ Len(reparsed[1].net.transitions) = Len(dnet[1].transitions)
        /\ Len(reparsed[1].net.arcs) = Len(dnet[1].arcs)
        /\ SumMap(reparsed[1].net.initial_marking) = SumMap(dnet[1].initial_marking)

\* the index in ocel:events of the j-th event of the t-th trace
OcelIndex(t, j) == SumSeq(SubSeq(TraceLens, 1, t - 1)) + j

\* C9: ocel:objects has one record per trace, in trace order, equal case ids kept;
\* ocel:events has one record per event, by trace order and then event order.
C9_OcelOneRecordEach ==
    ocel # <<>> =>
        /\ Len(ocel[1].objects) = Len(log.traces)
        /\ \A t \in DOMAIN log.traces : ocel[1].objects[t].oid = log.traces[t].case_id
        /\ Len(ocel[1].events) = TotalEvents
        /\ \A t \in DOMAIN log.traces : \A j \in DOMAIN log.traces[t].events :
              /\ ocel[1].events[OcelIndex(t, j)].activity
                    = log.traces[t].events[j].activity
              /\ ocel[1].events[OcelIndex(t, j)].omap = <<log.traces[t].case_id>>

\* two traces of the same case id, each with events
C9_Witness ==
    /\ ocel # <<>>
    /\ Len(log.traces) = 2
    /\ log.traces[1].case_id = log.traces[2].case_id
    /\ log.traces[1].events # <<>>
    /\ Len(log.traces[2].events) = 2
    /\ log.traces[2].events[1].activity # log.traces[2].events[2].activity

\* C10: two calls on the same log return equal structures, the order of the DFG node
\* and edge lists and the place ids of the discovered net included.
C10_SameOutputTwice ==
    /\ dfg2 # <<>> => dfg2 = dfg
    /\ dnet2 # <<>> => dnet2 = dnet

-----------------------------------------------------------------------------
(* Properties of the two parsers *)

\* the response of the handler when parse_xes failed
XesRejected == resp = <<ErrorResponse(400, "XES parse error", "No traces found in XES log")>>

\* the activity an event block states: the value of its last concept:name, or "unknown"
StatedActivity(ev) ==
    LET names == {k \in DOMAIN ev.content :
                     ev.content[k].kind = "string" /\ ev.content[k].key = "concept:name"}
    IN  IF names = {} THEN "unknown"
        ELSE ev.content[CHOOSE k \in names : \A j \in names : j <= k].value

\* C11: parse_xes fails with the no-traces-found error exactly when the text has no trace
\* block; otherwise the log has one Trace per trace block in document order, each with
\* one Event per event block of that trace in document order, a block without events
\* included.
C11_OneTracePerBlock ==
    pc # "parse_xes" =>
        /\ XesRejected <=> req.xes = <<>>
        /\ req.xes # <<>> =>
              /\ Len(log.traces) = Len(req.xes)
              /\ \A i \in DOMAIN req.xes :
                    /\ Len(log.traces[i].events) = Len(EventBlocks(req.xes[i]))
                    /\ \A j \in DOMAIN EventBlocks(req.xes[i]) :
                          log.traces[i].events[j].activity
                              = StatedActivity(EventBlocks(req.xes[i])[j])

\* a text of two trace blocks, the first without events, was parsed and replayed
C11_Witness ==
    /\ pc = "responded"
    /\ resp[1].status = 200
    /\ Len(req.xes) = 2
    /\ EventBlocks(req.xes[1]) = <<>>
    /\ EventBlocks(req.xes[2]) # <<>>
    /\ Len(log.traces) = 2

\* the response of the handler when parse_pnml failed
PnmlRejected ==
    resp = <<ErrorResponse(400, "PNML parse error", "No transitions found in PNML")>>

ElementsOf(pnml, kind) == SelectSeq(pnml, LAMBDA x : x.kind = kind)

\* C12: parse_pnml fails with the no-transitions-found error exactly when the model text
\* declares no transition; a text with at least one transition is accepted, also with
\* no place, no arc or no initial marking.
C12_RejectsOnlyNoTransitions ==
    (pc \notin {"parse_xes", "parse_pnml"} /\ req.xes # <<>>) =>
        /\ PnmlRejected <=> ElementsOf(req.pnml, "transition") = <<>>
        /\ ~PnmlRejected =>
              /\ Len(net.transitions) = Len(ElementsOf(req.pnml, "transition"))
              /\ Len(net.places) = Len(ElementsOf(req.pnml, "place"))
              /\ Len(net.arcs) = Len(ElementsOf(req.pnml, "arc"))

\* a model text with a transition and no place, no arc and no initial marking was
\* accepted and replayed
C12_Witness ==
    /\ pc = "responded"
    /\ resp[1].status = 200
    /\ ElementsOf(req.pnml, "place") = <<>>
    /\ ElementsOf(req.pnml, "arc") = <<>>
    /\ net.transitions # <<>>
    /\ net.initial_marking = EmptyMap

\* the case id a trace block states itself: the value of its last concept:name outside
\* its event blocks, or the sentinel
StatedCaseId(content) ==
    LET own == OwnStrings(content)
        names == {k \in DOMAIN own : own[k].key = "concept:name"}
    IN  IF names = {} THEN "case-unknown"
        ELSE own[CHOOSE k \in names : \A j \in names : j <= k].value

\* C14: the case_id of every parsed trace is the value of the trace block's own
\* concept:name, and "case-unknown" when the block has none of its own, whatever
\* concept:name attributes its events carry.
C14_CaseIdIsOwnName ==
    (pc # "parse_xes" /\ req.xes # <<>>) =>
        \A i \in DOMAIN req.xes : log.traces[i].case_id = StatedCaseId(req.xes[i])

\* C15: when the exported text of a net is parsed back, every place holds the initial
\* token count it has in the net: zero stays zero, k tokens stay k tokens.
C15_MarkingRoundTrip ==
    (pc = "reparsed" /\ reparsed[1].ok) =>
        \A i \in DOMAIN dnet[1].places :
            GetOr0(reparsed[1].net.initial_marking, dnet[1].places[i].id)
                = GetOr0(dnet[1].initial_marking, dnet[1].places[i].id)

\* C16: in every net the engine constructs, by discover_alpha_ppp or by parse_pnml, a
\* transition is invisible exactly when its label is empty or "tau".
C16_InvisibleIffSilentLabel ==
    /\ dnet # <<>> =>
          \A i \in DOMAIN dnet[1].transitions :
              dnet[1].transitions[i].is_invisible
                  <=> (dnet[1].transitions[i].label \in {"", "tau"})
    /\ reparsed # <<>> =>
          \A i \in DOMAIN reparsed[1].net.transitions :
              reparsed[1].net.transitions[i].is_invisible
                  <=> (reparsed[1].net.transitions[i].label \in {"", "tau"})

\* the occurrences of the place id in the initial-marking lists of the model text:
\* <<list, field>> index pairs
Occurrences(pnml, id) ==
    LET texts == MarkingTexts(pnml)
    IN  UNION {{<<t, f>> : f \in {g \in DOMAIN texts[t] : texts[t][g].text = id}} :
               t \in DOMAIN texts}

\* C23: in the net parse_pnml returns, each declared place holds as many initial tokens
\* as its id occurs over all the initial-marking lists of the text, and 0 when it is
\* never listed.
C23_MarkingCountsOccurrences ==
    (pc \notin {"parse_xes", "parse_pnml"} /\ req.xes # <<>> /\ ~PnmlRejected) =>
        \A i \in DOMAIN net.places :
            /\ net.places[i].id \in DOMAIN net.initial_marking
            /\ net.initial_marking[net.places[i].id]
                   = Cardinality(Occurrences(req.pnml, net.places[i].id))

\* p0 is listed in two lists of the text and p1 in none
C23_Witness ==
    /\ pc = "responded"
    /\ resp[1].status = 200
    /\ Len(MarkingTexts(req.pnml)) = 2
    /\ Len(net.places) = 2
    /\ net.initial_marking["p0"] = 2
    /\ net.initial_marking["p1"] = 0

-----------------------------------------------------------------------------
(* Properties of replay_trace *)

\* the events of the log whose activity is the label of no visible transition
UnmatchedEvents ==
    UNION {{<<t, j>> : j \in {k \in DOMAIN log.traces[t].events :
                                 \A i \in DOMAIN net.transitions :
                                     \/ net.transitions[i].is_invisible
                                     \/ net.transitions[i].label
                                            # log.traces[t].events[k].activity}} :
           t \in DOMAIN log.traces}

DeclaredPlaces == {net.places[i].id : i \in DOMAIN net.places}
DeclaredTransitions == {net.transitions[i].id : i \in DOMAIN net.transitions}

\* an arc one of whose endpoints is declared neither as a place nor as a transition
HasUndeclaredEndpoint ==
    \E i \in DOMAIN net.arcs :
        \/ net.arcs[i].source \notin DeclaredPlaces \cup DeclaredTransitions
        \/ net.arcs[i].target \notin DeclaredPlaces \cup DeclaredTransitions

\* C13: token_based_replay never returns an error: for every net and log a step of the
\* replay is possible until it returns, and what it returns is a ReplayResult whose
\* missing counter is the number of unmatched events and whose counters are naturals.
C13_AlwaysReturnsResult ==
    /\ pc \in {"loop", "events"} => (result = <<>> /\ ENABLED Next)
    /\ pc = "done" =>
          /\ Returned
          /\ Res.missing = Cardinality(UnmatchedEvents)
          /\ Res.produced \in Nat /\ Res.consumed \in Nat /\ Res.remaining \in Nat
          /\ Len(trace_counts) = Len(log.traces)

\* a result was returned for a net with an arc from an undeclared place and a log with
\* an unmatched activity and a token shortfall
C13_Witness ==
    /\ pc = "done"
    /\ Returned
    /\ HasUndeclaredEndpoint
    /\ Res.missing > 0
    /\ Res.remaining > 0

\* the event being replayed has a visible transition of its label
Matches(i) ==
    /\ net.transitions[i].label = CurEvent.activity
    /\ ~net.transitions[i].is_invisible

Firing ==
    /\ pc = "events"
    /\ ei <= Len(CurTrace.events)
    /\ \E i \in DOMAIN net.transitions : Matches(i)

\* the first transition in declaration order that matches
FiredIndex ==
    CHOOSE i \in DOMAIN net.transitions :
        Matches(i) /\ \A j \in 1..(i - 1) : ~Matches(j)

FiredId == net.transitions[FiredIndex].id

Tokens(m, p) == IF p \in DOMAIN m THEN m[p] ELSE 0

\* the marking and the two counters after the first k arcs of the net were handled as
\* input arcs of the fired transition, each on its own, in declaration order
RECURSIVE InputsHandled(_)
InputsHandled(k) ==
    IF k = 0
    THEN [marking |-> marking, consumed |-> consumed, remaining |-> remaining]
    ELSE LET before == InputsHandled(k - 1)
             a == net.arcs[k]
             available == Tokens(before.marking, a.source)
         IN  IF a.target # FiredId THEN before
             ELSE IF available >= a.multiplicity
                  THEN [marking |-> [p \in DOMAIN before.marking |->
                                        IF p = a.source THEN available - a.multiplicity
                                        ELSE before.marking[p]],
                        consumed |-> before.consumed + a.multiplicity,
                        remaining |-> before.remaining]
                  ELSE [marking |-> before.marking,
                        consumed |-> before.consumed,
                        remaining |-> before.remaining + (a.multiplicity - available)]

\* the places that output arcs of the fired transition lead to
OutputPlaces == {net.arcs[k].target : k \in {j \in DOMAIN net.arcs : net.arcs[j].source = FiredId}}

\* C17: when a transition fires, each arc ending at it is handled on its own in
\* declaration order: with enough tokens on the source place the multiplicity is removed
\* and added to consumed, otherwise multiplicity minus available is added to remaining
\* and the place keeps its tokens; a shortfall on one arc leaves the other arcs'
\* consumption in place.
C17_InputArcsOneByOne ==
    [][(Firing /\ ei' = ei + 1) =>
          LET after == InputsHandled(Len(net.arcs))
          IN  /\ consumed' = after.consumed
              /\ remaining' = after.remaining
              /\ \A p \in ((DOMAIN marking') \cup (DOMAIN marking)) \ OutputPlaces :
                    Tokens(marking', p) = Tokens(after.marking, p)]_vars

\* one firing in which one input arc had a shortfall and another one consumed
C17_Witness ==
    /\ pc = "events"
    /\ ei = 2
    /\ missing = 0
    /\ remaining > 0
    /\ consumed > 0

\* the indices of the arcs that leave the fired transition
OutputArcs == {k \in DOMAIN net.arcs : net.arcs[k].source = FiredId}

\* the sum of the multiplicities of the arcs with index in S
RECURSIVE Weight(_)
Weight(S) ==
    IF S = {} THEN 0
    ELSE LET k == CHOOSE x \in S : TRUE
         IN  net.arcs[k].multiplicity + Weight(S \ {k})

EventPending == pc = "events" /\ ei <= Len(CurTrace.events)

\* C18: replay never blocks: while an event of the trace is pending the next step
\* processes exactly that event, and a trace is left only after its last event; for an
\* event with a matching visible transition every arc leaving the selected transition adds
\* its multiplicity to its target place and to produced, with or without a shortfall on
\* the input arcs.
C18_AlwaysProduces ==
    /\ [](EventPending => ENABLED (ReplayMissing \/ ReplayFire))
    /\ [][(EventPending => (ei' = ei + 1 /\ pc' = "events" /\ ti' = ti))
          /\ ((pc = "events" /\ pc' # "events") => ei = Len(CurTrace.events) + 1)
          /\ ((Firing /\ ei' = ei + 1) =>
                 /\ produced' = produced + Weight(OutputArcs)
                 /\ \A p \in OutputPlaces :
                       Tokens(marking', p)
                           = Tokens(InputsHandled(Len(net.arcs)).marking, p)
                             + Weight({k \in OutputArcs : net.arcs[k].target = p}))]_vars

\* two events fired in a row, each with a shortfall and no consumption, and both put
\* their tokens out
C18_Witness ==
    /\ pc = "events"
    /\ ei = 3
    /\ missing = 0
    /\ consumed = 0
    /\ remaining >= 2
    /\ produced >= 2
    /\ \E p \in DOMAIN marking : marking[p] >= 2

\* C19: in every state of a replay every place of the working marking holds >= 0
\* tokens; each trace starts from a copy of the net's initial marking, and the net,
\* its initial marking included, is never modified.
C19_MarkingNeverNegative ==
    /\ [](\A p \in DOMAIN marking : marking[p] >= 0)
    /\ [][/\ net' = net
          /\ (pc = "loop" /\ pc' = "events") => marking' = net.initial_marking]_vars

\* the second trace starts from the initial marking after the first one took a token
\* and met a shortfall
C19_Witness ==
    /\ pc = "events"
    /\ ti = 2
    /\ ei = 1
    /\ trace_counts[1].consumed > 0
    /\ trace_counts[1].remaining > 0
    /\ marking = net.initial_marking
    /\ \E p \in DOMAIN marking : marking[p] > 0

SeveralMatch == Cardinality({i \in DOMAIN net.transitions : Matches(i)}) >= 2

\* C20: when several visible transitions carry the label of the replayed event, exactly
\* one fires, the first in declaration order: the counters and the marking change by
\* the arcs of that transition and by nothing else.
C20_FirstDeclaredFires ==
    [][(Firing /\ SeveralMatch /\ ei' = ei + 1) =>
          LET after == InputsHandled(Len(net.arcs))
          IN  /\ consumed' = after.consumed
              /\ remaining' = after.remaining
              /\ produced' = produced + Weight(OutputArcs)
              /\ missing' = missing
              /\ \A p \in (DOMAIN marking') \cup (DOMAIN marking) :
                    Tokens(marking', p)
                        = Tokens(after.marking, p)
                          + Weight({k \in OutputArcs : net.arcs[k].target = p})]_vars

\* both transitions carry the label A; the first has an input arc, the second an output
\* arc; after one event the token was consumed and nothing was produced
C20_Witness ==
    /\ pc = "events"
    /\ ei = 2
    /\ \A i \in DOMAIN net.transitions : net.transitions[i].label = "A"
    /\ Len(net.transitions) = 2
    /\ net.arcs = <<Arc("p0", "t1", 1), Arc("t2", "p0", 1)>>
    /\ consumed = 1
    /\ produced = 0
    /\ marking["p0"] = 0

\* C28: after every processed event of a trace the working marking summed over all
\* place ids is the initial marking's sum plus produced minus consumed; every step of
\* the trace changes the sum by what it adds to produced minus what it adds to
\* consumed, whatever it adds to missing and remaining, and a step that counts an event
\* as missing leaves the marking alone.
C28_TokenConservation ==
    /\ [](pc = "events" =>
             SumMap(marking) = SumMap(net.initial_marking) + produced - consumed)
    /\ [][(pc = "events" /\ pc' = "events") =>
             /\ SumMap(marking') - SumMap(marking)
                   = (produced' - produced) - (consumed' - consumed)
             /\ missing' > missing => marking' = marking]_vars

\* a replay that took tokens, put tokens out and met a shortfall, with a token sum
\* other than that of the initial marking
C28_Witness ==
    /\ pc = "events"
    /\ ei > 1
    /\ consumed > 0
    /\ produced > 0
    /\ remaining > 0
    /\ SumMap(marking) # SumMap(net.initial_marking)

\* the activity of the pending event is the label of invisible transitions only
InvisibleOnly ==
    /\ EventPending
    /\ \E i \in DOMAIN net.transitions :
          net.transitions[i].label = CurEvent.activity /\ net.transitions[i].is_invisible
    /\ \A i \in DOMAIN net.transitions :
          net.transitions[i].label = CurEvent.activity => net.transitions[i].is_invisible

\* C21: a transition whose is_invisible flag is true is never fired: an event whose
\* activity is the label of invisible transitions only is counted as missing and changes
\* no token count and no other counter.
C21_InvisibleNeverFired ==
    [][(InvisibleOnly /\ ei' = ei + 1) =>
          /\ missing' = missing + 1
          /\ marking' = marking
          /\ produced' = produced
          /\ consumed' = consumed
          /\ remaining' = remaining]_vars

\* the event tau was replayed against the invisible transition t1 labelled tau, whose
\* input place holds a token
C21_Witness ==
    /\ pc = "events"
    /\ ei = 2
    /\ CurTrace.events[1].activity = "tau"
    /\ net.transitions[1] = Transition("t1", "tau", TRUE)
    /\ Arc("p0", "t1", 1) \in {net.arcs[k] : k \in DOMAIN net.arcs}
    /\ marking["p0"] = 1
    /\ missing = 1

\* the indices of the arcs that end at the fired transition
InputArcs == {k \in DOMAIN net.arcs : net.arcs[k].target = FiredId}

\* every arc of the fired transition has an undeclared place at its other end
OnlyUndeclaredArcs ==
    /\ InputArcs \cup OutputArcs # {}
    /\ \A k \in InputArcs : net.arcs[k].source \notin DeclaredPlaces
    /\ \A k \in OutputArcs : net.arcs[k].target \notin DeclaredPlaces

\* C22 as stated: an arc of the fired transition whose other endpoint is not a declared
\* place is skipped; so the firing of a transition that has only such arcs changes no
\* counter and adds no entry to the marking.
C22_UndeclaredArcsSkipped ==
    [][(Firing /\ OnlyUndeclaredArcs /\ ei' = ei + 1) =>
          /\ produced' = produced
          /\ consumed' = consumed
          /\ missing' = missing
          /\ remaining' = remaining
          /\ DOMAIN marking' = DOMAIN marking]_vars

\* C22 amended: replay does not look at whether an endpoint is declared.  An arc from
\* the fired transition to an undeclared id adds its multiplicity to produced and to the
\* marking entry of that id, which it creates; an arc to the fired transition from an
\* undeclared id is handled against the working marking like any input arc, so with no
\* token under that id its multiplicity is added to remaining and no entry is created;
\* missing is unchanged.
C22_UndeclaredArcsCounted ==
    [][(Firing /\ ei' = ei + 1) =>
          LET after == InputsHandled(Len(net.arcs))
              undeclaredOut == {net.arcs[k].target : k \in OutputArcs} \ DeclaredPlaces
              undeclaredIn == {net.arcs[k].source : k \in InputArcs} \ DeclaredPlaces
          IN  /\ missing' = missing
              /\ produced' = produced + Weight(OutputArcs)
              /\ consumed' = after.consumed
              /\ remaining' = after.remaining
              /\ \A q \in undeclaredOut :
                    /\ q \in DOMAIN marking'
                    /\ marking'[q] = Tokens(after.marking, q)
                                        + Weight({k \in OutputArcs : net.arcs[k].target = q})
              /\ \A q \in undeclaredIn :
                    Tokens(marking, q) = 0 =>
                        /\ remaining' >= remaining
                                            + Weight({k \in InputArcs : net.arcs[k].source = q})
                        /\ q \in DOMAIN marking' => q \in undeclaredOut]_vars

\* the fired transition has an arc from and an arc to an undeclared id: the first added
\* to remaining, the second to produced and to the marking
C22_Witness ==
    /\ pc = "events"
    /\ ei = 2
    /\ net.arcs = <<Arc("px", "t1", 1), Arc("t1", "px", 1)>>
    /\ "px" \notin DeclaredPlaces
    /\ remaining = 1
    /\ produced = 1
    /\ consumed = 0
    /\ "px" \in DOMAIN marking
    /\ marking["px"] = 1

-----------------------------------------------------------------------------
(* Properties of the discovered net *)

NonEmpty == {t \in DOMAIN log.traces : log.traces[t].events # <<>>}

LogActivities ==
    UNION {{log.traces[t].events[j].activity : j \in DOMAIN log.traces[t].events} :
           t \in DOMAIN log.traces}

\* the distinct directly-follows pairs of the log
LogEdges ==
    UNION {{<<log.traces[t].events[j].activity, log.traces[t].events[j + 1].activity>> :
              j \in 1..(Len(log.traces[t].events) - 1)} : t \in NonEmpty}

LogStarts == {log.traces[t].events[1].activity : t \in NonEmpty}
LogEnds == {log.traces[t].events[Len(log.traces[t].events)].activity : t \in NonEmpty}

DNet == dnet[1]
DArcs == {DNet.arcs[k] : k \in DOMAIN DNet.arcs}

\* C24: the net discover_alpha_ppp returns has one visible transition per distinct
\* activity, 2 + E places (source, sink and one place labelled a->b per distinct edge),
\* S + F + 2E arcs of multiplicity 1 (source to each start activity, each end activity
\* to sink, two arcs through each edge place), one initial token on the source place
\* only and a first final marking of one token on the sink place only.
C24_DiscoveredNetShape ==
    dnet # <<>> =>
        /\ Len(DNet.transitions) = Cardinality(LogActivities)
        /\ \A a \in LogActivities :
              \E i \in DOMAIN DNet.transitions :
                  DNet.transitions[i].label = a /\ ~DNet.transitions[i].is_invisible
        /\ Len(DNet.places) = 2 + Cardinality(LogEdges)
        /\ DNet.places[1].label = "source" /\ DNet.places[2].label = "sink"
        /\ \A e \in LogEdges :
              \E i \in 3..Len(DNet.places) :
                  /\ DNet.places[i].label = e[1] \o "->" \o e[2]
                  /\ Arc("t_" \o e[1], DNet.places[i].id, 1) \in DArcs
                  /\ Arc(DNet.places[i].id, "t_" \o e[2], 1) \in DArcs
        /\ Len(DNet.arcs)
              = Cardinality(LogStarts) + Cardinality(LogEnds) + 2 * Cardinality(LogEdges)
        /\ \A k \in DOMAIN DNet.arcs : DNet.arcs[k].multiplicity = 1
        /\ \A a \in LogStarts : Arc(DNet.places[1].id, "t_" \o a, 1) \in DArcs
        /\ \A a \in LogEnds : Arc("t_" \o a, DNet.places[2].id, 1) \in DArcs
        /\ DNet.initial_marking = [q \in {DNet.places[1].id} |-> 1]
        /\ DNet.final_markings[1] = [q \in {DNet.places[2].id} |-> 1]

\* a log with two start activities, two end activities and two distinct edges
C24_Witness ==
    /\ dnet # <<>>
    /\ Cardinality(LogStarts) = 2
    /\ Cardinality(LogEnds) = 2
    /\ Cardinality(LogEdges) = 2
    /\ Len(DNet.arcs) = 8

DPlaceIds == {DNet.places[k].id : k \in DOMAIN DNet.places}
DTransitionIds == {DNet.transitions[k].id : k \in DOMAIN DNet.transitions}

\* C29: in every net discover_alpha_ppp returns the place ids are pairwise distinct, the
\* transition ids are pairwise distinct, no id is both a place and a transition, and
\* every arc goes from a declared place to a declared transition or from a declared
\* transition to a declared place.
C29_DiscoveredNetWellFormed ==
    dnet # <<>> =>
        /\ \A k1, k2 \in DOMAIN DNet.places :
              DNet.places[k1].id = DNet.places[k2].id => k1 = k2
        /\ \A k1, k2 \in DOMAIN DNet.transitions :
              DNet.transitions[k1].id = DNet.transitions[k2].id => k1 = k2
        /\ DPlaceIds \cap DTransitionIds = {}
        /\ \A k \in DOMAIN DNet.arcs :
              \/ DNet.arcs[k].source \in DPlaceIds /\ DNet.arcs[k].target \in DTransitionIds
              \/ DNet.arcs[k].source \in DTransitionIds /\ DNet.arcs[k].target \in DPlaceIds

\* a net discovered from a log with two traces, a repeated activity and two distinct
\* edges: four places, arcs in both directions
C29_Witness ==
    /\ dnet # <<>>
    /\ Cardinality(NonEmpty) = 2
    /\ Cardinality(LogEdges) = 2
    /\ Len(DNet.places) = 4
    /\ \E k \in DOMAIN DNet.arcs : DNet.arcs[k].source \in DPlaceIds \ {"p_source"}
    /\ \E k \in DOMAIN DNet.arcs : DNet.arcs[k].target \in DPlaceIds \ {"p_sink"}

-----------------------------------------------------------------------------
(* Properties of the OCEL document *)

\* the trace that holds the k-th record of ocel:events
OcelTraceOf(k) ==
    CHOOSE t \in DOMAIN log.traces :
        \E j \in DOMAIN log.traces[t].events : OcelIndex(t, j) = k

\* C27: the k-th event in traversal order over all traces, counted from 0, has id
\* "event-k", so the ids are pairwise distinct; the omap of every event holds exactly one
\* object id, the case id of the trace of the event, which is an id of ocel:objects.
C27_OcelEventIds ==
    ocel # <<>> =>
        /\ \A k \in DOMAIN ocel[1].events :
              /\ ocel[1].events[k].eid = "event-" \o ToString(k - 1)
              /\ Len(ocel[1].events[k].omap) = 1
              /\ ocel[1].events[k].omap[1] = log.traces[OcelTraceOf(k)].case_id
              /\ \E o \in DOMAIN ocel[1].objects :
                    ocel[1].objects[o].oid = ocel[1].events[k].omap[1]
        /\ \A k1, k2 \in DOMAIN ocel[1].events :
              ocel[1].events[k1].eid = ocel[1].events[k2].eid => k1 = k2

\* two traces of different case ids, each with events, the second one numbered on from
\* the first
C27_Witness ==
    /\ ocel # <<>>
    /\ Len(log.traces) = 2
    /\ log.traces[1].case_id # log.traces[2].case_id
    /\ Len(log.traces[1].events) = 2
    /\ log.traces[2].events # <<>>
    /\ ocel[1].events[3].eid = "event-2"
    /\ ocel[1].events[3].omap = <<log.traces[2].case_id>>

-----------------------------------------------------------------------------
(* Properties of the performance statistics *)

\* the positions <<trace, event>> at which the activity occurs
OccurrencesOf(a) ==
    UNION {{<<t, j>> : j \in {k \in DOMAIN log.traces[t].events :
                                 log.traces[t].events[k].activity = a}} :
           t \in DOMAIN log.traces}

HasNext(pos) == pos[2] < Len(log.traces[pos[1]].events)
StampAt(t, j) == log.traces[t].events[j].timestamp

\* the gap in ms from the occurrence to the next event of its trace
Gap(pos) == StampAt(pos[1], pos[2] + 1)[1] - StampAt(pos[1], pos[2])[1]

\* the occurrences that give a duration sample
SampledAt(a) ==
    {pos \in OccurrencesOf(a) :
        /\ HasNext(pos)
        /\ StampAt(pos[1], pos[2]) # <<>>
        /\ StampAt(pos[1], pos[2] + 1) # <<>>
        /\ Gap(pos) >= 0}

RECURSIVE SumGaps(_)
SumGaps(S) ==
    IF S = {} THEN 0
    ELSE LET x == CHOOSE y \in S : TRUE IN Gap(x) + SumGaps(S \ {x})

Stats == stats[1]

\* C25: the duration samples of an activity are the non-negative gaps between an
\* occurrence and the next event of the same trace, taken only when both timestamps are
\* present; negative gaps are dropped; count is the number of occurrences whatever the
\* timestamps; an activity without a sample reports avg = min = max = 0.
C25_ActivityDurations ==
    stats # <<>> =>
        /\ DOMAIN Stats.activity_stats = LogActivities
        /\ \A a \in LogActivities :
              LET st == Stats.activity_stats[a]
                  S == SampledAt(a)
              IN  /\ st.count = Cardinality(OccurrencesOf(a))
                  /\ IF S = {}
                     THEN /\ RatEq(st.avg_duration_ms, Zero)
                          /\ RatEq(st.min_duration_ms, Zero)
                          /\ RatEq(st.max_duration_ms, Zero)
                     ELSE /\ RatEq(st.avg_duration_ms, <<SumGaps(S), Cardinality(S)>>)
                          /\ \E pos \in S : RatEq(st.min_duration_ms, <<Gap(pos), 1>>)
                          /\ \A pos \in S : RatLeq(st.min_duration_ms, <<Gap(pos), 1>>)
                          /\ \E pos \in S : RatEq(st.max_duration_ms, <<Gap(pos), 1>>)
                          /\ \A pos \in S : RatLeq(<<Gap(pos), 1>>, st.max_duration_ms)

\* activity A has two samples of different length and one dropped negative gap
C25_Witness ==
    /\ stats # <<>>
    /\ "A" \in LogActivities
    /\ Cardinality(SampledAt("A")) = 2
    /\ \E pos \in OccurrencesOf("A") :
          /\ HasNext(pos)
          /\ StampAt(pos[1], pos[2]) # <<>>
          /\ StampAt(pos[1], pos[2] + 1) # <<>>
          /\ Gap(pos) < 0
    /\ ~RatEq(Stats.activity_stats["A"].min_duration_ms,
              Stats.activity_stats["A"].max_duration_ms)
    /\ Stats.activity_stats["A"].count > 3

\* the traces that give a flow time: non-empty, first and last event stamped, last not
\* before first
FlowOf(t) ==
    StampAt(t, Len(log.traces[t].events))[1] - StampAt(t, 1)[1]

FlowTraces ==
    {t \in DOMAIN log.traces :
        /\ log.traces[t].events # <<>>
        /\ StampAt(t, 1) # <<>>
        /\ StampAt(t, Len(log.traces[t].events)) # <<>>
        /\ FlowOf(t) >= 0}

RECURSIVE SumFlows(_)
SumFlows(S) ==
    IF S = {} THEN 0
    ELSE LET t == CHOOSE x \in S : TRUE IN FlowOf(t) + SumFlows(S \ {t})

\* C26: avg_flow_time_ms is the mean of last minus first timestamp over the non-empty
\* traces whose first and last events are both stamped and whose difference is >= 0,
\* and 0 without such a trace; throughput_per_hour is 3,600,000 / avg_flow_time_ms
\* when that is non-zero and 0 otherwise.
C26_FlowTimeAndThroughput ==
    stats # <<>> =>
        /\ IF FlowTraces = {}
           THEN RatEq(Stats.avg_flow_time_ms, Zero)
           ELSE Stats.avg_flow_time_ms[1] * Cardinality(FlowTraces)
                    = SumFlows(FlowTraces) * Stats.avg_flow_time_ms[2]
        /\ IF RatEq(Stats.avg_flow_time_ms, Zero)
           THEN RatEq(Stats.throughput_per_hour, Zero)
           ELSE Stats.throughput_per_hour[1] * Stats.avg_flow_time_ms[1]
                    = 3600000 * Stats.avg_flow_time_ms[2] * Stats.throughput_per_hour[2]

\* one trace gives a positive flow time, another one ends before it starts and is left
\* out of the mean
C26_Witness ==
    /\ stats # <<>>
    /\ \E t \in FlowTraces : FlowOf(t) > 0
    /\ \E t \in DOMAIN log.traces \ FlowTraces :
          /\ log.traces[t].events # <<>>
          /\ StampAt(t, 1) # <<>>
          /\ StampAt(t, Len(log.traces[t].events)) # <<>>
          /\ FlowOf(t) < 0
    /\ ~RatEq(Stats.throughput_per_hour, Zero)


-----------------------------------------------------------------------------
(* Properties of discovery followed by replay *)

\* the net under replay is one discover_alpha_ppp builds from the log under replay
ReplaysOwnNet == net \in AlphaNets(log)

\* C30: token_based_replay of a log on the net discover_alpha_ppp built from that same
\* log returns missing = 0: every activity of the log has a matching visible transition
\* in the discovered net.
C30_OwnNetNoMissing ==
    /\ (pc = "loop" /\ ti = 1 /\ ReplaysOwnNet) =>
          \A a \in LogActivities : MatchingTrans(net, a) # <<>>
    /\ (Returned /\ ReplaysOwnNet) => Res.missing = 0

\* a finished replay of a log of two traces with tau events on its own discovered net,
\* tokens consumed on the way
C30_Witness ==
    /\ Returned
    /\ ReplaysOwnNet
    /\ Cardinality(NonEmpty) = 2
    /\ "tau" \in LogActivities
    /\ Cardinality(LogActivities) >= 2
    /\ Res.consumed > 0
    /\ Res.missing = 0
====
